---- MODULE Spec2Model ----
(***************************************************************************)
(* The nonce-coupled authenticated-request pipeline of the acme2 client:   *)
(* Directory::get_nonce and Directory::authenticated_request                *)
(* (src/src/directory.rs), the JWS envelope built by jws()                  *)
(* (src/src/jws.rs) and the AcmeResult sum the callers lift into a Result   *)
(* (src/src/resources.rs).                                                  *)
(*                                                                         *)
(* Several authenticated requests share one Directory.  They are futures    *)
(* on one thread (the Directory holds a RefCell), so the code between two   *)
(* .await points runs atomically and each action below is one such stretch. *)
(* The ACME server is the environment: it answers every request with any    *)
(* status, any body and an optional Replay-Nonce header, or the transport   *)
(* fails; it never issues the same nonce value twice.                       *)
(***************************************************************************)
EXTENDS Integers, Sequences, FiniteSets, TLC

VARIABLES
  dir,        \* the shared Directory: its nonce slot and its URLs
  issued,     \* server side: how many nonce values the server has issued
  pc,         \* per request: the .await it is suspended at
  req,        \* per request: the arguments of authenticated_request
  held,       \* per request: the local `nonce` returned by get_nonce
  body,       \* per request: the JWS of the POST
  resp,       \* per request: the POST response as received so far
  result,     \* per request: what the caller of the operation receives
  posts,      \* per request: POSTs sent by this logical request
  fetches,    \* per request: requests its get_nonce sent to the newNonce URL
  nonceUse,   \* per nonce value the program still holds: POSTs that carried it
  jwsIn,      \* the arguments of a call of jws() taken on its own
  jwsOut,     \* what that call returned
  accounts,   \* the Account values the caller holds
  sentReq,    \* the request the last operation on an Account sent, if any
  order,      \* Order::authorizations under way: its Account, its URLs still to fetch
  outcome,    \* what that operation returned to its caller
  sigIn,      \* the DER-encoded (r, s) sign_sha256 gets from OpenSSL
  sigOut,     \* the signature bytes sign_sha256 returned
  chal,       \* Challenge::validate: its position, `auth` and its result
  srv,        \* server side: the status of the challenge
  builder,    \* an OrderBuilder: its identifiers and the payload build() sent
  flow,       \* the caller of an order: its Order, its calls and what they returned
  ca          \* server side: the order, its authorizations and their challenges

requestVars == <<pc, req, held, body, resp, result, posts, fetches>>
jwsVars == <<jwsIn, jwsOut>>
accountVars == <<accounts, sentReq, order, outcome>>
signVars == <<sigIn, sigOut>>
challengeVars == <<chal, srv>>
flowVars == <<builder, flow, ca>>
callerVars == <<accountVars, signVars, challengeVars, flowVars>>
vars == <<dir, issued, requestVars, nonceUse, jwsVars, callerVars>>

\* ------------------------------------------------------------------ bounds
\* Number of authenticated requests that can be in flight on one Directory.
NumTasks == 2
\* Number of distinct nonce values the server can issue in one run.
MaxNonces == 4
\* Cap on the POSTs one logical request may send (only a retrying variant
\* of the code gets near it; the code itself sends one).
MaxPosts == 4
\* Number of Account values the caller holds at once.
NumAccounts == 2
\* Number of authorization URLs an order can list.
MaxAuthz == 1
\* Cap on the polls of one Challenge::validate call.
MaxPolls == 3
\* Number of authorization URLs of the order whose caller is followed.
MaxUrls == 2

Tasks == 1..NumTasks
Nonces == 1..MaxNonces

\* ------------------------------------------------------------ Option<T>
\* Option<T> is a sequence of at most one element.
None == <<>>
Some(x) == <<x>>
IsSome(o) == Len(o) > 0
Unwrap(o) == o[1]

\* Result<T, Error>
Ok(v) == [ok |-> TRUE, val |-> v, err |-> "none"]
Err(e) == [ok |-> FALSE, val |-> None, err |-> e]

\* -------------------------------------------------------------- inputs
\* The private keys a caller can hand over: RSA, EC on P-256, EC on
\* another curve.
KeyTypes == {"RSA", "P256", "P384"}

\* The keys of the requests that share the Directory: one that jws()
\* accepts and one that it rejects (jws() on its own is run over KeyTypes).
RequestKeys == {"RSA", "P384"}

\* The Directory as DirectoryBuilder::build leaves it: the URLs of the
\* directory document and an empty nonce slot.
NewDirectory ==
  [ nonce           |-> None,
    new_nonce_url   |-> "newNonce",
    new_account_url |-> "newAccount",
    new_order_url   |-> "newOrder",
    revoke_cert_url |-> "revokeCert",
    key_change_url  |-> "keyChange",
    new_authz_url   |-> None,
    meta            |-> Some("meta") ]

\* The arguments the three callers pass to authenticated_request.
AccountBuildRequest(d) ==
  [ url |-> d.new_account_url, payload |-> "{contact,termsOfServiceAgreed,onlyReturnExisting}",
    pkey_id |-> None ]
OrderBuildRequest(d) ==
  [ url |-> d.new_order_url, payload |-> "{identifiers}", pkey_id |-> Some("kid") ]
AuthorizationsRequest(d) ==
  [ url |-> "authz", payload |-> "", pkey_id |-> Some("kid") ]
Requests(d) == {AccountBuildRequest(d), OrderBuildRequest(d), AuthorizationsRequest(d)}

NoRequest == [url |-> "", payload |-> "", pkey_id |-> None, pkey |-> "RSA"]

\* ---------------------------------------------------------------- jws
\* base64url without padding: an injective encoding of the bytes.
b64(data) == [b64 |-> data]

\* Jwk::new: an RSA key, an EC key on P-256, or an error.
Jwk_new_anyCurve(pkey) ==
  IF pkey = "RSA" THEN Ok([kty |-> "RSA", crv |-> ""])
  ELSE IF pkey = "P256" THEN Ok([kty |-> "EC", crv |-> "P-256"])
  ELSE Ok([kty |-> "EC", crv |-> "P-384"])

Jwk_new(pkey) ==
  IF pkey = "RSA" THEN Ok([kty |-> "RSA", crv |-> ""])
  ELSE IF pkey = "P256" THEN Ok([kty |-> "EC", crv |-> "P-256"])
  ELSE Err("unsupported private key type")

Alg(jwk) == IF jwk.kty = "RSA" THEN "RS256" ELSE "ES256"

\* serde_json::to_string(&header): kid and jwk are skipped when None, so
\* the object has a key exactly for each field that is set.
SerializeHeader(h) ==
  LET keys == {"nonce", "alg", "url"}
                \cup (IF IsSome(h.kid) THEN {"kid"} ELSE {})
                \cup (IF IsSome(h.jwk) THEN {"jwk"} ELSE {})
  IN  [k \in keys |->
         CASE k = "nonce" -> h.nonce
           [] k = "alg"   -> h.alg
           [] k = "url"   -> h.url
           [] k = "kid"   -> Unwrap(h.kid)
           [] k = "jwk"   -> Unwrap(h.jwk)]

\* The header with kid or jwk filled in from account_id.
JwsHeader_bothKeys(nonce, url, jwk, account_id) ==
  [ nonce |-> nonce, alg |-> Alg(jwk), url |-> url,
    kid |-> IF IsSome(account_id) THEN Some(Unwrap(account_id)) ELSE None,
    jwk |-> Some(jwk) ]

JwsHeader(nonce, url, jwk, account_id) ==
  [ nonce |-> nonce, alg |-> Alg(jwk), url |-> url,
    kid |-> IF IsSome(account_id) THEN Some(Unwrap(account_id)) ELSE None,
    jwk |-> IF IsSome(account_id) THEN None ELSE Some(jwk) ]

\* payload.as_bytes(): the bytes of the payload as the caller passed it,
\* with no JSON encoding on the way.
as_bytes_json(payload) == IF payload = "" THEN "\"\"" ELSE payload

as_bytes(payload) == payload

jws(url, nonce, payload, pkey, account_id) ==
  LET payload_b64 == b64(as_bytes(payload))
      jwk == Jwk_new(pkey)
  IN  IF ~jwk.ok THEN Err(jwk.err)
      ELSE LET header == JwsHeader(nonce, url, jwk.val, account_id)
               protected_b64 == b64(SerializeHeader(header))
               signature == [alg |-> header.alg, over |-> <<protected_b64, payload_b64>>]
           IN  Ok([ protected |-> protected_b64,
                    payload   |-> payload_b64,
                    signature |-> b64(signature) ])

NoBody == [protected |-> b64(<<>>), payload |-> b64(""), signature |-> b64(<<>>)]

\* ------------------------------------------------------ the ACME server
\* A Replay-Nonce header of a response: absent, present with bytes that
\* are not visible ASCII, or present with a nonce value.
NoHeader == [present |-> FALSE, readable |-> FALSE, value |-> 0]
UnreadableHeader == [present |-> TRUE, readable |-> FALSE, value |-> 0]
NonceHeader(n) == [present |-> TRUE, readable |-> TRUE, value |-> n]

\* The headers the server can send next: a nonce value is issued once.
ReplayNonceHeaders ==
  {NoHeader, UnreadableHeader}
    \cup (IF issued < MaxNonces THEN {NonceHeader(issued + 1)} ELSE {})

Statuses == {200, 400}

\* Response bodies: the JSON of the resource the caller expects, a problem
\* document (badNonce or another type), or text that is neither.
Texts ==
  { [shape |-> "resource", typ |-> ""],
    [shape |-> "problem",  typ |-> "urn:ietf:params:acme:error:badNonce"],
    [shape |-> "problem",  typ |-> "urn:ietf:params:acme:error:accountDoesNotExist"],
    [shape |-> "other",    typ |-> ""] }

NoText == [shape |-> "none", typ |-> ""]
NoResponse == [status |-> 0, nonce |-> NoHeader, text |-> NoText]

\* ------------------------------------------------------- directory.rs
extract_nonce_from_response(h) ==
  IF ~h.present THEN Ok(None)
  ELSE IF ~h.readable THEN Err("header")
  ELSE Ok(Some(h.value))

\* get_nonce with a nonce in the slot: the nonce is returned and the
\* slot cleared, with no .await in between.
get_nonce_cached_keep(slot) ==
  [nonce |-> Unwrap(slot), slot |-> slot]

get_nonce_cached(slot) ==
  [nonce |-> Unwrap(slot), slot |-> None]

\* get_nonce with an empty slot, once the newNonce response is in: the
\* nonce of the response is returned, the slot is not written.
get_nonce_fresh_store(slot, h) ==
  LET maybe_nonce == extract_nonce_from_response(h)
  IN  IF ~maybe_nonce.ok THEN [res |-> Err(maybe_nonce.err), slot |-> slot]
      ELSE IF IsSome(maybe_nonce.val)
        THEN [res |-> Ok(Unwrap(maybe_nonce.val)), slot |-> maybe_nonce.val]
        ELSE [res |-> Err("newNonce request must return a nonce"), slot |-> slot]

get_nonce_fresh_lenient(slot, h) ==
  LET maybe_nonce == extract_nonce_from_response(h)
  IN  IF ~maybe_nonce.ok THEN [res |-> Err(maybe_nonce.err), slot |-> slot]
      ELSE IF IsSome(maybe_nonce.val)
        THEN [res |-> Ok(Unwrap(maybe_nonce.val)), slot |-> slot]
        ELSE [res |-> Ok(0), slot |-> slot]

get_nonce_fresh(slot, h) ==
  LET maybe_nonce == extract_nonce_from_response(h)
  IN  IF ~maybe_nonce.ok THEN [res |-> Err(maybe_nonce.err), slot |-> slot]
      ELSE IF IsSome(maybe_nonce.val)
        THEN [res |-> Ok(Unwrap(maybe_nonce.val)), slot |-> slot]
        ELSE [res |-> Err("newNonce request must return a nonce"), slot |-> slot]

\* authenticated_request, after the POST response is in: a nonce of the
\* response replaces the content of the slot, whatever the status.
AbsorbNonce_successOnly(slot, status, maybe_nonce) ==
  IF IsSome(maybe_nonce) /\ status = 200 THEN Some(Unwrap(maybe_nonce)) ELSE slot

AbsorbNonce_keepOld(slot, status, maybe_nonce) ==
  IF IsSome(maybe_nonce) THEN slot \o Some(Unwrap(maybe_nonce)) ELSE slot

AbsorbNonce(slot, status, maybe_nonce) ==
  IF IsSome(maybe_nonce) THEN Some(Unwrap(maybe_nonce)) ELSE slot

\* serde_json::from_str::<AcmeResult<T>>(&text): the untagged sum tries
\* T, then the problem document.
from_str(text) ==
  IF text.shape = "resource" THEN Ok([arm |-> "Ok", typ |-> ""])
  ELSE IF text.shape = "problem" THEN Ok([arm |-> "Err", typ |-> text.typ])
  ELSE Err("decode")

\* What the caller of an operation receives.
Success == [ok |-> TRUE, err |-> "none", problem |-> ""]
Failure(e) == [ok |-> FALSE, err |-> e, problem |-> ""]
ServerError(typ) == [ok |-> FALSE, err |-> "server", problem |-> typ]
NoResult == [ok |-> FALSE, err |-> "pending", problem |-> ""]

\* impl Into<Result<T, Error>> for AcmeResult<T>
Into(acme_result) ==
  IF acme_result.arm = "Ok" THEN Success ELSE ServerError(acme_result.typ)

\* The value the operation hands its caller for a response body.
Decoded(text) ==
  LET r == from_str(text)
  IN  IF r.ok THEN Into(r.val) ELSE Failure(r.err)

\* authenticated_request returns what it decoded from the one response:
\* no outcome makes it send the request again.
Retries_onBadNonce(r) == ~r.ok /\ r.problem = "urn:ietf:params:acme:error:badNonce"

Retries_onError(r) == ~r.ok

Retries(r) == FALSE

\* self.nonce.replace(..): the slot is the only field of the Directory
\* that is written after build.
WithNonce_reset(d, slot) == [d EXCEPT !.nonce = slot, !.meta = None]

WithNonce(d, slot) == [d EXCEPT !.nonce = slot]

\* send().await? on a POST that fails: the function returns and the slot
\* is left as it is; the nonce that was in the JWS goes with the request.
AfterFailedPost_putBack(slot, nonce) == nonce

AfterFailedPost(slot, nonce) == slot

\* The guards on the RefCell a request holds while it is suspended at an
\* .await: the Ref of try_borrow() is a temporary of its let statement and
\* replace() returns before the next .await, so none at any of them.
GuardsAt_overFetch(await) == IF await = "fetch" THEN 1 ELSE 0

GuardsAt(await) == 0

\* ---------------------------------------------------------------- state
NotCalled == [called |-> FALSE, res |-> Err("not called")]

InitRequests ==
  /\ dir = NewDirectory
  /\ issued = 0
  /\ pc = [t \in Tasks |-> "idle"]
  /\ req = [t \in Tasks |-> NoRequest]
  /\ held = [t \in Tasks |-> None]
  /\ body = [t \in Tasks |-> NoBody]
  /\ resp = [t \in Tasks |-> NoResponse]
  /\ result = [t \in Tasks |-> NoResult]
  /\ posts = [t \in Tasks |-> 0]
  /\ fetches = [t \in Tasks |-> 0]
  /\ nonceUse = [n \in Nonces |-> 0]

\* Nothing has been called yet: no jws() on its own, no operation on an
\* Account, no signature conversion, no challenge validation.
IdleJws ==
  /\ jwsIn = [url |-> "", nonce |-> 0, payload |-> "", pkey |-> "RSA", account_id |-> None]
  /\ jwsOut = NotCalled

NoAccount ==
  [state |-> "none", private_key_id |-> "", status |-> "", pkey |-> "RSA"]

NoOrder == [account |-> 0, authorization_urls |-> 0]

NothingSent ==
  [op |-> "none", account |-> 0, signed_with |-> "none", kid |-> "", payload |-> "",
   configured |-> None]

NoOutcome ==
  [ op |-> "none", account |-> 0, res |-> "none", decoded |-> FALSE,
    location |-> [present |-> FALSE, readable |-> FALSE, value |-> ""], conforming |-> FALSE ]

IdleAccounts ==
  /\ accounts = [a \in 1..NumAccounts |-> NoAccount]
  /\ sentReq = NothingSent
  /\ order = NoOrder
  /\ outcome = NoOutcome

IdleSign ==
  /\ sigIn = [r |-> <<>>, s |-> <<>>]
  /\ sigOut = NotCalled

IdleChallenge ==
  /\ chal = [pc |-> "idle", status |-> "", result |-> "none", polls |-> 0,
             sent |-> [url |-> "", payload |-> ""], http |-> 0]
  /\ srv = "pending"

\* An OrderBuilder as OrderBuilder::new leaves it.
NewOrderBuilder == [identifiers |-> <<>>, sent |-> None]

\* The caller has no Order yet, and the server has none.
NoFlow ==
  [ pc |-> "idle", order |-> [status |-> "", authorization_urls |-> <<>>],
    requested |-> <<>>, authorizations |-> <<>>, result |-> "none",
    i |-> 0, challenge |-> "", authorization |-> "", seen |-> "" ]

IdleFlow ==
  /\ builder = NewOrderBuilder
  /\ flow = NoFlow
  /\ ca = [order |-> "none", authz |-> <<>>]

Init ==
  /\ InitRequests
  /\ IdleJws
  /\ IdleAccounts
  /\ IdleSign
  /\ IdleChallenge
  /\ IdleFlow

\* A request that has returned hands its result to its caller in the same
\* poll of the executor: nothing else runs on the thread in between.
NoReturnPending == \A u \in Tasks : pc[u] # "done"

\* The nonce values the program holds a copy of: in the slot, or in a
\* request (its local `nonce`, then the JWS it is sending).
HeldNonces ==
  {dir.nonce[i] : i \in DOMAIN dir.nonce}
    \cup UNION {{held[t][i] : i \in DOMAIN held[t]} : t \in Tasks}

\* nonceUse after a step that sent a POST with each nonce in `sent`: the
\* count of a value goes up with each POST that carries it, and the value
\* is forgotten once the program holds no copy of it, because it can then
\* never send that value again.
Counted(sent) ==
  [n \in Nonces |->
     IF n \in HeldNonces' THEN nonceUse[n] + (IF n \in sent THEN 1 ELSE 0) ELSE 0]

\* The request fails before or at an .await: the error goes to the caller.
Fail(t, e) ==
  /\ pc' = [pc EXCEPT ![t] = "done"]
  /\ result' = [result EXCEPT ![t] = Failure(e)]

\* get_nonce has returned nonce n: sign and send the POST (the stretch
\* from the return of get_nonce to the .await of send()).
SignAndSend(t, r, n) ==
  LET signed == jws(r.url, n, r.payload, r.pkey, r.pkey_id)
  IN  /\ held' = [held EXCEPT ![t] = Some(n)]
      /\ req' = [req EXCEPT ![t] = NoRequest]
      /\ IF signed.ok
           THEN /\ body' = [body EXCEPT ![t] = signed.val]
                /\ posts' = [posts EXCEPT ![t] = @ + 1]
                /\ pc' = [pc EXCEPT ![t] = "post"]
                /\ UNCHANGED result
           ELSE /\ Fail(t, signed.err)
                /\ UNCHANGED <<body, posts>>
      /\ nonceUse' = Counted(IF signed.ok THEN {n} ELSE {})

\* try_borrow() fails while a guard on the slot is alive.
CacheBorrowed == \E u \in Tasks : GuardsAt(pc[u]) > 0

\* authenticated_request is called: get_nonce runs up to its return (a
\* nonce was in the slot) or up to the .await of the newNonce request.
Call(t) ==
  /\ pc[t] = "idle"
  /\ NoReturnPending
  /\ \E c \in Requests(dir), k \in RequestKeys :
       LET r == [url |-> c.url, payload |-> c.payload, pkey_id |-> c.pkey_id, pkey |-> k]
       IN  IF CacheBorrowed
             THEN /\ Fail(t, "already mutably borrowed")
                  /\ UNCHANGED <<dir, req, held, body, posts, fetches, nonceUse>>
           ELSE IF IsSome(dir.nonce)
             THEN LET got == get_nonce_cached(dir.nonce)
                  IN  /\ dir' = WithNonce(dir, got.slot)
                      /\ SignAndSend(t, r, got.nonce)
                      /\ UNCHANGED fetches
             ELSE /\ req' = [req EXCEPT ![t] = r]
                  /\ fetches' = [fetches EXCEPT ![t] = @ + 1]
                  /\ pc' = [pc EXCEPT ![t] = "fetch"]
                  /\ UNCHANGED <<dir, held, body, posts, nonceUse, result>>
  /\ UNCHANGED <<issued, resp, jwsVars, callerVars>>

\* The newNonce request completes.
NonceResponse(t) ==
  /\ pc[t] = "fetch"
  /\ NoReturnPending
  /\ \/ /\ Fail(t, "transport")
        /\ UNCHANGED <<dir, issued, req, held, body, posts, nonceUse>>
     \/ \E h \in ReplayNonceHeaders :
          LET got == get_nonce_fresh(dir.nonce, h)
          IN  /\ issued' = IF h.readable THEN issued + 1 ELSE issued
              /\ dir' = WithNonce(dir, got.slot)
              /\ IF got.res.ok
                   THEN SignAndSend(t, req[t], got.res.val)
                   ELSE /\ Fail(t, got.res.err)
                        /\ UNCHANGED <<req, held, body, posts>>
                        /\ nonceUse' = Counted({})
  /\ UNCHANGED <<resp, fetches, jwsVars, callerVars>>

\* The POST completes: the response's nonce goes into the slot.  The JWS
\* and the nonce in it were moved into the request and are gone, and
\* get_nonce is long over.
PostResponse(t) ==
  /\ pc[t] = "post"
  /\ NoReturnPending
  /\ body' = [body EXCEPT ![t] = NoBody]
  /\ held' = [held EXCEPT ![t] = None]
  /\ fetches' = [fetches EXCEPT ![t] = 0]
  /\ \/ /\ Fail(t, "transport")
        /\ dir' = WithNonce(dir, AfterFailedPost(dir.nonce, held[t]))
        /\ UNCHANGED <<issued, resp>>
     \/ \E status \in Statuses, h \in ReplayNonceHeaders :
          LET maybe_nonce == extract_nonce_from_response(h)
          IN  /\ issued' = IF h.readable THEN issued + 1 ELSE issued
              /\ resp' = [resp EXCEPT ![t] = [status |-> status, nonce |-> h, text |-> NoText]]
              /\ IF maybe_nonce.ok
                   THEN /\ dir' = WithNonce(dir, AbsorbNonce(dir.nonce, status, maybe_nonce.val))
                        /\ pc' = [pc EXCEPT ![t] = "text"]
                        /\ UNCHANGED result
                   ELSE /\ Fail(t, maybe_nonce.err)
                        /\ UNCHANGED dir
  /\ nonceUse' = Counted({})
  /\ UNCHANGED <<req, posts, jwsVars, callerVars>>

\* The body of the response is in: decode it and return.
BodyResponse(t) ==
  /\ pc[t] = "text"
  /\ NoReturnPending
  /\ \/ /\ Fail(t, "transport")
        /\ UNCHANGED <<resp, posts>>
     \/ \E text \in Texts :
          LET r == Decoded(text)
          IN  /\ resp' = [resp EXCEPT ![t].text = text]
              /\ IF Retries(r) /\ posts[t] < MaxPosts
                   THEN /\ pc' = [pc EXCEPT ![t] = "post"]
                        /\ posts' = [posts EXCEPT ![t] = @ + 1]
                        /\ UNCHANGED result
                   ELSE /\ pc' = [pc EXCEPT ![t] = "done"]
                        /\ result' = [result EXCEPT ![t] = r]
                        /\ UNCHANGED posts
  /\ UNCHANGED <<dir, issued, req, held, body, fetches, nonceUse, jwsVars, callerVars>>

\* The caller has its result; the future and its locals are dropped.
Return(t) ==
  /\ pc[t] = "done"
  /\ pc' = [pc EXCEPT ![t] = "idle"]
  /\ req' = [req EXCEPT ![t] = NoRequest]
  /\ held' = [held EXCEPT ![t] = None]
  /\ body' = [body EXCEPT ![t] = NoBody]
  /\ resp' = [resp EXCEPT ![t] = NoResponse]
  /\ result' = [result EXCEPT ![t] = NoResult]
  /\ posts' = [posts EXCEPT ![t] = 0]
  /\ fetches' = [fetches EXCEPT ![t] = 0]
  /\ UNCHANGED <<dir, issued, jwsVars, callerVars>>
  /\ nonceUse' = Counted({})

Step(t) ==
  \/ Call(t)
  \/ NonceResponse(t)
  \/ PostResponse(t)
  \/ BodyResponse(t)
  \/ Return(t)

\* Requests on one Directory, interleaved at their .await points.
Next == \E t \in Tasks : Step(t)

Spec == Init /\ [][Next]_vars

\* Requests on one Directory issued one at a time: a request is called
\* only when no other request is in flight.
Alone(t) == \A u \in Tasks \ {t} : pc[u] = "idle"

CallAlone(t) == Alone(t) /\ Call(t)

NextSeq ==
  \E t \in Tasks :
    \/ CallAlone(t)
    \/ NonceResponse(t)
    \/ PostResponse(t)
    \/ BodyResponse(t)
    \/ Return(t)

SpecSeq == Init /\ [][NextSeq]_vars

\* Every HTTP call of the one request in flight completes, with a response
\* or with an error, and the caller takes the result.
FairSeq ==
  SpecSeq /\ \A t \in Tasks :
               WF_vars(NonceResponse(t) \/ PostResponse(t) \/ BodyResponse(t) \/ Return(t))

\* The caller drops the future of a request that is suspended at an
\* .await: its locals go with it and nothing of it runs again.  A POST
\* that was sent out took its nonce along.
Cancel(t) ==
  /\ pc[t] \in {"fetch", "post", "text"}
  /\ NoReturnPending
  /\ pc' = [pc EXCEPT ![t] = "idle"]
  /\ req' = [req EXCEPT ![t] = NoRequest]
  /\ held' = [held EXCEPT ![t] = None]
  /\ body' = [body EXCEPT ![t] = NoBody]
  /\ resp' = [resp EXCEPT ![t] = NoResponse]
  /\ posts' = [posts EXCEPT ![t] = 0]
  /\ fetches' = [fetches EXCEPT ![t] = 0]
  /\ dir' = IF pc[t] = "post"
              THEN WithNonce(dir, AfterFailedPost(dir.nonce, held[t]))
              ELSE dir
  /\ nonceUse' = Counted({})
  /\ UNCHANGED <<issued, result, jwsVars, callerVars>>

NextCancel ==
  \/ NextSeq
  \/ \E t \in Tasks : Cancel(t)

\* Requests issued one at a time, each of which its caller may cancel.
SpecCancel == Init /\ [][NextCancel]_vars

\* ------------------------------------------------- jws() on its own
Urls == {NewDirectory.new_account_url, NewDirectory.new_order_url, "authz"}
Payloads == {"", "{}", "{identifiers}"}
AccountIds == {None, Some("kid")}

InitJws ==
  /\ InitRequests
  /\ jwsIn \in [url : Urls, nonce : Nonces, payload : Payloads, pkey : KeyTypes,
                account_id : AccountIds]
  /\ jwsOut = NotCalled
  /\ IdleAccounts
  /\ IdleSign
  /\ IdleChallenge
  /\ IdleFlow

CallJws ==
  /\ ~jwsOut.called
  /\ jwsOut' = [called |-> TRUE,
                res |-> jws(jwsIn.url, jwsIn.nonce, jwsIn.payload, jwsIn.pkey, jwsIn.account_id)]
  /\ UNCHANGED <<dir, issued, requestVars, nonceUse, jwsIn, callerVars>>

SpecJws == InitJws /\ [][CallJws]_vars

\* ------------------------------------------ operations on an Account
\* AccountBuilder::build, OrderBuilder::build and Order::authorizations as
\* their caller sees them, one operation at a time.  Each hands one request
\* to authenticated_request, which returns an error (get_nonce, jws() or
\* the transport failed, the body did not decode) or the decoded body and
\* the headers of the response.
Accounts == 1..NumAccounts

\* What a caller can set on an AccountBuilder before build()
\* (only_return_existing goes into the payload like the other two and is
\* left unset here).
Builders ==
  [ private_key             : {None} \cup {Some(k) : k \in RequestKeys},
    contact                 : {None, Some("mailto:hello@lcas.dev")},
    terms_of_service_agreed : {None, Some(TRUE), Some(FALSE)},
    only_return_existing    : {None} ]

\* json!() of an Option: the value, or null.
JsonBool(o) == IF IsSome(o) THEN (IF Unwrap(o) THEN "true" ELSE "false") ELSE "null"
JsonString(o) == IF IsSome(o) THEN Unwrap(o) ELSE "null"

NewAccountPayload(b) ==
  [ contact              |-> JsonString(b.contact),
    termsOfServiceAgreed |-> JsonBool(b.terms_of_service_agreed),
    onlyReturnExisting   |-> JsonBool(b.only_return_existing) ]

\* The old registration path: the payload has the one field, always true.
RegisterRequest == [termsOfServiceAgreed |-> "true"]

AccountStatuses == {"valid", "deactivated", "revoked"}

\* A Location header of a response: absent, not visible ASCII, or a URL
\* (which a server that does not conform can leave empty).
Locations == {"", "acct/1"}
NoLocation == [present |-> FALSE, readable |-> FALSE, value |-> ""]
UnreadableLocation == [present |-> TRUE, readable |-> FALSE, value |-> ""]
LocationHeader(l) == [present |-> TRUE, readable |-> TRUE, value |-> l]
LocationHeaders == {NoLocation, UnreadableLocation} \cup {LocationHeader(l) : l \in Locations}

\* What the server can answer to a newAccount request: an account with
\* its status and a Location header, or a body that is no account (the
\* code then reads nothing else of the response).
AccountResponses ==
  [ text : {t \in Texts : t.shape = "resource"}, account_status : AccountStatuses,
    location : LocationHeaders, authz : {0} ]
    \cup [ text : {t \in Texts : t.shape # "resource"}, account_status : {""},
           location : {NoLocation}, authz : {0} ]

\* What it can answer to a request for an order (with its number of
\* authorization URLs) or for an authorization.
ResourceResponses ==
  [ text : {t \in Texts : t.shape = "resource"}, account_status : {""},
    location : {NoLocation}, authz : 0..MaxAuthz ]
    \cup [ text : {t \in Texts : t.shape # "resource"}, account_status : {""},
           location : {NoLocation}, authz : {0} ]

\* The answer of a conforming server to a newAccount request that created
\* or found the account.
Conforming(response) ==
  /\ response.text.shape = "resource"
  /\ response.account_status = "valid"
  /\ response.location.present /\ response.location.readable
  /\ response.location.value # ""

\* AccountBuilder::build: headers.get(LOCATION).ok_or_else(..)?.to_str()?
private_key_id_default(headers) ==
  IF ~headers.present THEN Ok("")
  ELSE IF ~headers.readable THEN Err("header")
  ELSE Ok(headers.value)

private_key_id(headers) ==
  IF ~headers.present THEN Err("mandatory location header in newAccount not present")
  ELSE IF ~headers.readable THEN Err("header")
  ELSE Ok(headers.value)

\* account.directory.clone().unwrap() and account.private_key.clone()
\* .unwrap(): both are Some exactly in an Account that build() returned.
CanUse_unchecked(account) == TRUE

CanUse(account) == account.state = "built"

\* The pkey_id argument OrderBuilder::build and Order::authorizations pass.
AccountKid_none(account) == None

AccountKid(account) == Some(account.private_key_id)

\* The request as it went out: which of jwk and kid its protected header
\* has, the kid, and the payload that was encoded.
SentAs(op, a, signed, configured) ==
  LET header == signed.protected.b64
      keys == DOMAIN header \cap {"jwk", "kid"}
  IN  [ op |-> op, account |-> a,
        signed_with |-> IF keys = {"jwk"} THEN "jwk"
                        ELSE IF keys = {"kid"} THEN "kid"
                        ELSE IF keys = {} THEN "neither" ELSE "both",
        kid |-> IF "kid" \in keys THEN header.kid ELSE "",
        payload |-> signed.payload.b64,
        configured |-> configured ]

Returned(op, a, res, response, got) ==
  [ op |-> op, account |-> a, res |-> res,
    decoded |-> got /\ Decoded(response.text).ok,
    location |-> IF got THEN response.location ELSE NoLocation,
    conforming |-> got /\ Conforming(response) ]

NoAnswer == [text |-> NoText, account_status |-> "", location |-> NoLocation, authz |-> 0]

\* The operation returns an error before any response is in.
Failed(op, a) == outcome' = Returned(op, a, "error", NoAnswer, FALSE)

\* The nonce get_nonce returned: its value has no part in what these
\* operations do, so one value stands for it here.
SomeNonce == 1

\* AccountBuilder::build once the response is in: the body is decoded,
\* the Location header becomes private_key_id, the Account is returned.
AccountBuilt_unbound(a, private_key, response) ==
  LET res == Decoded(response.text)
      kid == private_key_id(response.location)
  IN  IF res.ok /\ kid.ok
        THEN /\ accounts' = [accounts EXCEPT ![a] =
                  [ state |-> "built", private_key_id |-> "",
                    status |-> response.account_status, pkey |-> private_key ]]
             /\ outcome' = Returned("newAccount", a, "ok", response, TRUE)
        ELSE /\ UNCHANGED accounts
             /\ outcome' = Returned("newAccount", a, "error", response, TRUE)

AccountBuilt(a, private_key, response) ==
  LET res == Decoded(response.text)
      kid == private_key_id(response.location)
  IN  IF res.ok /\ kid.ok
        THEN /\ accounts' = [accounts EXCEPT ![a] =
                  [ state |-> "built", private_key_id |-> kid.val,
                    status |-> response.account_status, pkey |-> private_key ]]
             /\ outcome' = Returned("newAccount", a, "ok", response, TRUE)
        ELSE /\ UNCHANGED accounts
             /\ outcome' = Returned("newAccount", a, "error", response, TRUE)

AccountBuild(a) ==
  /\ accounts[a].state = "none"
  /\ \E b \in Builders :
       LET private_key == IF IsSome(b.private_key) THEN Unwrap(b.private_key) ELSE "RSA"
           signed == jws(dir.new_account_url, SomeNonce, NewAccountPayload(b), private_key, None)
       IN  \/ /\ Failed("newAccount", a)
              /\ sentReq' = NothingSent
              /\ UNCHANGED accounts
           \/ /\ ~signed.ok
              /\ Failed("newAccount", a)
              /\ sentReq' = NothingSent
              /\ UNCHANGED accounts
           \/ /\ signed.ok
              /\ sentReq' = SentAs("newAccount", a, signed.val, b.terms_of_service_agreed)
              /\ \/ /\ Failed("newAccount", a)
                    /\ UNCHANGED accounts
                 \/ \E response \in AccountResponses :
                      AccountBuilt(a, private_key, response)
  /\ UNCHANGED order
  /\ UNCHANGED <<dir, issued, requestVars, nonceUse, jwsVars, signVars, challengeVars, flowVars>>

\* An Account the caller deserialized itself (Account derives Deserialize):
\* directory and private_key are None, private_key_id is empty.
Deserialize(a) ==
  /\ accounts[a].state = "none"
  /\ accounts' = [accounts EXCEPT ![a] =
       [ state |-> "bare", private_key_id |-> "", status |-> "valid", pkey |-> "RSA" ]]
  /\ UNCHANGED <<sentReq, order, outcome>>
  /\ UNCHANGED <<dir, issued, requestVars, nonceUse, jwsVars, signVars, challengeVars, flowVars>>

\* A request of an operation that uses an Account: signed with the
\* Account's key and its private_key_id as kid.  A new order lists its
\* authorization URLs; a fetched authorization leaves urls_left to fetch.
UseAccount(op, a, url, payload, urls_left) ==
  LET account == accounts[a]
      signed == jws(url, SomeNonce, payload, account.pkey, AccountKid(account))
  IN  IF ~CanUse(account)
        THEN /\ outcome' = Returned(op, a, "panic", NoAnswer, FALSE)
             /\ sentReq' = NothingSent
             /\ order' = NoOrder
        ELSE \/ /\ Failed(op, a)
                /\ sentReq' = NothingSent
                /\ order' = NoOrder
             \/ /\ ~signed.ok
                /\ Failed(op, a)
                /\ sentReq' = NothingSent
                /\ order' = NoOrder
             \/ /\ signed.ok
                /\ sentReq' = SentAs(op, a, signed.val, None)
                /\ \/ /\ Failed(op, a)
                      /\ order' = NoOrder
                   \/ \E response \in ResourceResponses :
                        IF Decoded(response.text).ok
                          THEN /\ order' = [account |-> a, authorization_urls |->
                                            IF op = "newOrder" THEN response.authz ELSE urls_left]
                               /\ outcome' = Returned(op, a, "ok", response, TRUE)
                          ELSE /\ order' = NoOrder
                               /\ outcome' = Returned(op, a, "error", response, TRUE)

\* OrderBuilder::build.
OrderBuild(a) ==
  /\ accounts[a].state # "none"
  /\ UseAccount("newOrder", a, dir.new_order_url, "{identifiers}", 0)
  /\ UNCHANGED accounts
  /\ UNCHANGED <<dir, issued, requestVars, nonceUse, jwsVars, signVars, challengeVars, flowVars>>

\* Order::authorizations, one turn of its loop: a POST-as-GET of the next
\* authorization URL of the Order.
AuthorizationFetch ==
  /\ order.authorization_urls > 0
  /\ UseAccount("authz", order.account, "authz", "", order.authorization_urls - 1)
  /\ UNCHANGED accounts
  /\ UNCHANGED <<dir, issued, requestVars, nonceUse, jwsVars, signVars, challengeVars, flowVars>>

\* AccountRegistration::register of the old registration path: the
\* payload is RegisterRequest { terms_of_service_agreed: true } whatever
\* the caller set.  (Its Directory::request is not part of the sources, so
\* the envelope of this request is not modelled.)
Agreements == {None, Some("agreement-url")}

Register ==
  /\ \E agreement \in Agreements :
       sentReq' = [ op |-> "register", account |-> 0, signed_with |-> "unmodelled", kid |-> "",
                    payload |-> RegisterRequest,
                    configured |-> IF IsSome(agreement) THEN Some(TRUE) ELSE None ]
  /\ \E res \in {"ok", "error"} : outcome' = Returned("register", 0, res, NoAnswer, FALSE)
  /\ UNCHANGED <<accounts, order>>
  /\ UNCHANGED <<dir, issued, requestVars, nonceUse, jwsVars, signVars, challengeVars, flowVars>>

NextAccounts ==
  \/ \E a \in Accounts : AccountBuild(a)
  \/ \E a \in Accounts : Deserialize(a)
  \/ \E a \in Accounts : OrderBuild(a)
  \/ AuthorizationFetch
  \/ Register

SpecAccounts == Init /\ [][NextAccounts]_vars

\* ------------------------------------- sign_sha256 for an EC key
\* OpenSSL returns the P-256 signature (r, s) DER-encoded; sign_sha256
\* turns it into the 64 bytes r || s that JWS wants.
COMPONENT_SIZE == 32

\* r and s as big-endian magnitudes without leading zeros: of full
\* length, one byte short and one byte long, with the high bit of the
\* first byte set or not, and zero or non-zero bytes after it.
ComponentLengths == {1, COMPONENT_SIZE - 1, COMPONENT_SIZE}
FirstBytes == {1, 127, 128, 255}
FillBytes == {0, 255}
Magnitudes ==
  { [i \in 1..len |-> IF i = 1 THEN first ELSE fill] :
      len \in ComponentLengths, first \in FirstBytes, fill \in FillBytes }

\* The content bytes of a DER INTEGER, which asn1::BigInt::as_bytes()
\* returns: the magnitude, with 0x00 in front when its high bit is set.
DerInteger(m) == IF m[1] >= 128 THEN <<0>> \o m ELSE m

\* if r[0] == 0 { r = &r[1..] }
StripLeadingZero_always(bytes) == Tail(bytes)

StripLeadingZero(bytes) == IF bytes[1] = 0 THEN Tail(bytes) ELSE bytes

\* bytes[COMPONENT_SIZE - r.len()..COMPONENT_SIZE].copy_from_slice(r) and
\* the same for s in the second half of [0; 64]; a component longer than
\* COMPONENT_SIZE makes the slice index underflow, and the call panics.
Concatenated(r, s) ==
  IF Len(r) > COMPONENT_SIZE \/ Len(s) > COMPONENT_SIZE
    THEN Err("panic")
    ELSE Ok([i \in 1..(2 * COMPONENT_SIZE) |->
               IF i <= COMPONENT_SIZE
                 THEN IF i > COMPONENT_SIZE - Len(r) THEN r[i - (COMPONENT_SIZE - Len(r))] ELSE 0
                 ELSE IF i > 2 * COMPONENT_SIZE - Len(s)
                        THEN s[i - (2 * COMPONENT_SIZE - Len(s))] ELSE 0])

\* The Jwk::Ec arm of sign_sha256, from the parsed (r, s) on.
sign_sha256(parsed) ==
  LET r == StripLeadingZero(parsed.r)
      s == StripLeadingZero(parsed.s)
  IN  Concatenated(r, s)

InitSign ==
  /\ InitRequests
  /\ IdleJws
  /\ IdleAccounts
  /\ IdleChallenge
  /\ IdleFlow
  /\ sigIn \in [r : Magnitudes, s : Magnitudes]
  /\ sigOut = NotCalled

\* The signer signs, asn1 parses the DER, the conversion runs.
CallSign ==
  /\ ~sigOut.called
  /\ sigOut' = [called |-> TRUE,
                res |-> sign_sha256([r |-> DerInteger(sigIn.r), s |-> DerInteger(sigIn.s)])]
  /\ UNCHANGED <<dir, issued, requestVars, nonceUse, jwsVars, accountVars, sigIn, challengeVars, flowVars>>

SpecSign == InitSign /\ [][CallSign]_vars

\* ------------------------------------------- Challenge::validate
\* The statuses of a challenge on the server: pending, then processing
\* once validation was triggered, then valid or invalid.
ChallengeStatuses == {"pending", "processing", "valid", "invalid"}

\* The server works on the challenge once the client has triggered it.
ServerStep ==
  /\ chal.pc # "idle"
  /\ \/ srv = "pending" /\ srv' = "processing"
     \/ srv = "processing" /\ srv' \in {"valid", "invalid"}
  /\ UNCHANGED chal
  /\ UNCHANGED <<dir, issued, requestVars, nonceUse, jwsVars, accountVars, signVars, flowVars>>

\* The HTTP statuses of the answer to the trigger, and the bodies of an
\* answer: a challenge object, or anything that does not decode as one.
TriggerStatuses == {200, 202, 400}
ChallengeBodies == {"challenge", "other"}

\* validate() returns.
Returns(res) == chal' = [chal EXCEPT !.pc = "done", !.result = res]

\* The head of the loop: what the status in `auth` makes the loop do.
\* Only pending polls; valid and invalid return; every other status goes
\* straight to the delay.
LoopBranch_lenient(status) ==
  IF status = "pending" THEN "poll"
  ELSE IF status = "invalid" THEN "error"
  ELSE "ok"

LoopBranch(status) ==
  IF status = "pending" THEN "poll"
  ELSE IF status = "valid" THEN "ok"
  ELSE IF status = "invalid" THEN "error"
  ELSE "delay"

\* The URL of the challenge (self.url), and json!({}) as it is serialized.
ChallengeUrl == "chall/1"
EmptyObject == "{}"

\* The trigger: Jws::new(&self.url, account, json!({})), POSTed to self.url.
TriggerRequest == [url |-> ChallengeUrl, payload |-> EmptyObject]

\* The HTTP statuses of the answer to the trigger that validate() accepts.
Acceptable_any(http) == TRUE

Acceptable(http) == http \in {200, 202}

\* validate() is called: Jws::new for the trigger fails, or the trigger
\* is POSTed.
Validate ==
  /\ chal.pc = "idle"
  /\ \/ Returns("error")
     \/ chal' = [chal EXCEPT !.pc = "trigger", !.sent = TriggerRequest]
  /\ UNCHANGED srv
  /\ UNCHANGED <<dir, issued, requestVars, nonceUse, jwsVars, accountVars, signVars, flowVars>>

\* The answer to the trigger: the transport fails, the status is neither
\* 200 nor 202, the body does not decode, or `auth` is the challenge as
\* the server has it.
TriggerResponse ==
  /\ chal.pc = "trigger"
  /\ \/ Returns("error")
     \/ \E http \in TriggerStatuses, answer \in ChallengeBodies :
          IF ~Acceptable(http) \/ answer # "challenge"
            THEN chal' = [chal EXCEPT !.pc = "done", !.result = "error", !.http = http]
            ELSE chal' = [chal EXCEPT !.pc = "check", !.status = srv, !.http = http]
  /\ UNCHANGED srv
  /\ UNCHANGED <<dir, issued, requestVars, nonceUse, jwsVars, accountVars, signVars, flowVars>>

\* One pass over the if / else if chain at the head of the loop.
LoopHead ==
  /\ chal.pc = "check"
  /\ LET branch == LoopBranch(chal.status)
     IN  \/ /\ branch = "poll"
            /\ \/ Returns("error")
               \/ chal' = [chal EXCEPT !.pc = "poll",
                                        !.polls = IF @ < MaxPolls THEN @ + 1 ELSE @]
         \/ /\ branch = "ok"
            /\ Returns("ok")
         \/ /\ branch = "error"
            /\ Returns("error")
         \/ /\ branch = "delay"
            /\ chal' = [chal EXCEPT !.pc = "sleep"]
  /\ UNCHANGED srv
  /\ UNCHANGED <<dir, issued, requestVars, nonceUse, jwsVars, accountVars, signVars, flowVars>>

\* The answer to a poll (its HTTP status is not looked at): `auth` is
\* replaced, then the delay.
PollResponse ==
  /\ chal.pc = "poll"
  /\ \/ Returns("error")
     \/ \E answer \in ChallengeBodies :
          IF answer # "challenge"
            THEN Returns("error")
            ELSE chal' = [chal EXCEPT !.pc = "sleep", !.status = srv]
  /\ UNCHANGED srv
  /\ UNCHANGED <<dir, issued, requestVars, nonceUse, jwsVars, accountVars, signVars, flowVars>>

\* delay_for(poll_interval) is over: back to the head of the loop.
Wake ==
  /\ chal.pc = "sleep"
  /\ chal' = [chal EXCEPT !.pc = "check"]
  /\ UNCHANGED srv
  /\ UNCHANGED <<dir, issued, requestVars, nonceUse, jwsVars, accountVars, signVars, flowVars>>

NextChallenge ==
  \/ Validate
  \/ TriggerResponse
  \/ LoopHead
  \/ PollResponse
  \/ Wake
  \/ ServerStep

SpecChallenge == Init /\ [][NextChallenge]_vars

\* The server is responsive and gets the challenge to valid or invalid,
\* and the poll loop is scheduled.
FairChallenge ==
  /\ SpecChallenge
  /\ WF_vars(ServerStep)
  /\ WF_vars(TriggerResponse)
  /\ WF_vars(PollResponse)
  /\ WF_vars(LoopHead)
  /\ WF_vars(Wake)

\* ------------------------------------------------ OrderBuilder
\* Identifiers a caller can hold: Identifier has public fields, and an
\* Order or an Authorization received from the server carries identifiers
\* of any type.
MaxIdentifiers == 2
Fqdns == {"test.acme2-slim.lcas.dev", "www.acme2-slim.lcas.dev"}
Identifiers ==
  [typ : {"dns"}, value : Fqdns] \cup {[typ |-> "ip", value |-> "192.0.2.1"]}
IdentifierLists == UNION {[1..n -> Identifiers] : n \in 0..MaxIdentifiers}

\* set_identifiers: self.identifiers = identifiers
set_identifiers(identifiers) == identifiers

SetIdentifiers ==
  /\ \E identifiers \in IdentifierLists :
       builder' = [builder EXCEPT !.identifiers = set_identifiers(identifiers)]
  /\ UNCHANGED <<flow, ca>>
  /\ UNCHANGED <<dir, issued, requestVars, nonceUse, jwsVars, accountVars, signVars, challengeVars>>

\* add_dns_identifier: pushes Identifier { typ: "dns", value: fqdn }.
AddDnsIdentifier ==
  /\ Len(builder.identifiers) < MaxIdentifiers
  /\ \E fqdn \in Fqdns :
       builder' = [builder EXCEPT
                     !.identifiers = Append(@, [typ |-> "dns", value |-> fqdn])]
  /\ UNCHANGED <<flow, ca>>
  /\ UNCHANGED <<dir, issued, requestVars, nonceUse, jwsVars, accountVars, signVars, challengeVars>>

\* json!({ "identifiers": self.identifiers })
NewOrderPayload(b) == [identifiers |-> b.identifiers]

\* OrderBuilder::build as far as its request: the payload goes to
\* authenticated_request, and out unless get_nonce or jws() fails.
BuilderBuild ==
  /\ \/ builder' = [builder EXCEPT !.sent = Some(NewOrderPayload(builder))]
     \/ builder' = [builder EXCEPT !.sent = None]
  /\ UNCHANGED <<flow, ca>>
  /\ UNCHANGED <<dir, issued, requestVars, nonceUse, jwsVars, accountVars, signVars, challengeVars>>

NextBuilder ==
  \/ SetIdentifiers
  \/ AddDnsIdentifier
  \/ BuilderBuild

SpecBuilder == Init /\ [][NextBuilder]_vars

\* ------------------------------------- an order and its caller
\* The caller of test_order_http01_challenge_pebble: it builds an order,
\* enumerates its authorizations and, for each in turn, places the key
\* authorization (or not), triggers and polls the challenge, then polls
\* the authorization.  The server keeps the order, its authorizations and
\* one http-01 challenge for each; its state machines are those of the
\* specification.
FlowAccount ==
  [state |-> "built", private_key_id |-> "acct/1", status |-> "valid", pkey |-> "RSA"]

AuthzUrl(k) == [authz |-> k]

\* The server creates an order over n identifiers: the order, its
\* authorizations and their challenges start pending.
NewServerOrder(n) ==
  [ order |-> "pending",
    authz |-> [k \in 1..n |-> [ status |-> "pending", challenge |-> "pending",
                                placed |-> FALSE, triggered |-> FALSE ]] ]

\* OrderBuilder::build: the request fails, or the Order of the response
\* is returned.
FlowOrderBuild ==
  /\ flow.pc = "idle"
  /\ \/ /\ flow' = [flow EXCEPT !.pc = "failed"]
        /\ UNCHANGED ca
     \/ \E n \in 1..MaxUrls :
          /\ ca' = NewServerOrder(n)
          /\ flow' = [flow EXCEPT
                        !.pc = "authorizations",
                        !.order = [ status |-> ca'.order,
                                    authorization_urls |-> [k \in 1..n |-> AuthzUrl(k)] ],
                        !.seen = ca'.order]
  /\ UNCHANGED builder
  /\ UNCHANGED <<dir, issued, requestVars, nonceUse, jwsVars, accountVars, signVars, challengeVars>>

\* The request of one turn of the loop of Order::authorizations as it
\* goes out: authenticated_request(&authorization_url, "", key, Some(kid)).
AuthorizationRequest(url, account) ==
  LET signed == jws(url, SomeNonce, "", account.pkey, AccountKid(account))
      sent == SentAs("authz", 0, signed.val, None)
  IN  [url |-> signed.val.protected.b64.url, signed_with |-> sent.signed_with,
       payload |-> sent.payload]

\* The end of one turn of the loop: res? returns the error and drops the
\* vector; otherwise the Authorization is pushed, and after the last URL
\* the vector is returned.  The Order is behind &self and is not written.
AfterAuthorization_skipFailed(f, got, item) ==
  LET pushed == IF got THEN Append(f.authorizations, item) ELSE f.authorizations
      last == Len(f.requested) = Len(f.order.authorization_urls)
  IN  [f EXCEPT !.authorizations = pushed,
                !.result = IF last THEN "ok" ELSE "none",
                !.pc = IF last THEN "place" ELSE "authorizations",
                !.i = IF last THEN 1 ELSE 0]

AfterAuthorization_drained(f, got, item) ==
  LET pushed == Append(f.authorizations, item)
      last == Len(pushed) = Len(f.order.authorization_urls)
  IN  IF ~got
        THEN [f EXCEPT !.authorizations = <<>>, !.result = "error", !.pc = "failed"]
        ELSE [f EXCEPT !.authorizations = pushed,
                       !.order.authorization_urls = IF last THEN <<>> ELSE @,
                       !.result = IF last THEN "ok" ELSE "none",
                       !.pc = IF last THEN "place" ELSE "authorizations",
                       !.i = IF last THEN 1 ELSE 0]

AfterAuthorization(f, got, item) ==
  LET pushed == Append(f.authorizations, item)
      last == Len(pushed) = Len(f.order.authorization_urls)
  IN  IF ~got
        THEN [f EXCEPT !.authorizations = <<>>, !.result = "error", !.pc = "failed"]
        ELSE [f EXCEPT !.authorizations = pushed,
                       !.result = IF last THEN "ok" ELSE "none",
                       !.pc = IF last THEN "place" ELSE "authorizations",
                       !.i = IF last THEN 1 ELSE 0]

\* Order::authorizations, one turn of its loop for the next URL of the
\* list: get_nonce fails and nothing is sent, or the POST-as-GET goes out
\* and fails, or its answer does not decode, or it is the Authorization as
\* the server has it.
Authorizations ==
  /\ flow.pc = "authorizations"
  /\ LET k == Len(flow.authorizations) + 1
         url == flow.order.authorization_urls[k]
         asked == [flow EXCEPT !.requested = Append(@, AuthorizationRequest(url, FlowAccount))]
         item == [url |-> url, status |-> ca.authz[url.authz].status,
                  challenge |-> ca.authz[url.authz].challenge]
     IN  \/ flow' = AfterAuthorization(flow, FALSE, item)
         \/ \E got \in BOOLEAN : flow' = AfterAuthorization(asked, got, item)
  /\ UNCHANGED <<builder, ca>>
  /\ UNCHANGED <<dir, issued, requestVars, nonceUse, jwsVars, accountVars, signVars, challengeVars>>

\* The caller places the key authorization of the http-01 challenge of
\* authorization i where the server will look for it, or does not.
PlaceKeyAuthorization ==
  /\ flow.pc = "place"
  /\ flow' = [flow EXCEPT !.pc = "trigger"]
  /\ \E placed \in BOOLEAN : ca' = [ca EXCEPT !.authz[flow.i].placed = placed]
  /\ UNCHANGED builder
  /\ UNCHANGED <<dir, issued, requestVars, nonceUse, jwsVars, accountVars, signVars, challengeVars>>

\* challenge.validate(): the trigger fails, or the server takes it and
\* answers with the challenge.
Trigger ==
  /\ flow.pc = "trigger"
  /\ \/ /\ flow' = [flow EXCEPT !.pc = "failed"]
        /\ UNCHANGED ca
     \/ /\ ca' = [ca EXCEPT !.authz[flow.i].triggered = TRUE]
        /\ flow' = [flow EXCEPT !.pc = "challenge", !.challenge = ca.authz[flow.i].challenge]
  /\ UNCHANGED builder
  /\ UNCHANGED <<dir, issued, requestVars, nonceUse, jwsVars, accountVars, signVars, challengeVars>>

\* poll_ready: what the status of an answer makes the poll loop do.
PollVerdict(status) ==
  IF status \in {"pending", "processing"} THEN "again"
  ELSE IF status = "valid" THEN "ok"
  ELSE "error"

\* challenge.poll_ready(), one poll: the request fails, or the status of
\* the answer decides.
ChallengePoll ==
  /\ flow.pc = "challenge"
  /\ \/ flow' = [flow EXCEPT !.pc = "failed"]
     \/ LET status == ca.authz[flow.i].challenge
            verdict == PollVerdict(status)
        IN  flow' = [flow EXCEPT !.challenge = status,
                                 !.pc = IF verdict = "ok" THEN "authorization"
                                        ELSE IF verdict = "error" THEN "failed" ELSE @]
  /\ UNCHANGED <<builder, ca>>
  /\ UNCHANGED <<dir, issued, requestVars, nonceUse, jwsVars, accountVars, signVars, challengeVars>>

\* auth.poll_ready(), one poll; after the last authorization the caller
\* is at the end of the test.
AuthorizationPoll ==
  /\ flow.pc = "authorization"
  /\ \/ flow' = [flow EXCEPT !.pc = "failed"]
     \/ LET status == ca.authz[flow.i].status
            verdict == PollVerdict(status)
            last == flow.i = Len(flow.authorizations)
        IN  IF verdict = "ok" /\ ~last
              THEN flow' = [flow EXCEPT !.pc = "place", !.i = @ + 1,
                                        !.challenge = "", !.authorization = ""]
              ELSE flow' = [flow EXCEPT !.authorization = status,
                                        !.pc = IF verdict = "ok" THEN "end"
                                               ELSE IF verdict = "error" THEN "failed" ELSE @]
  /\ UNCHANGED <<builder, ca>>
  /\ UNCHANGED <<dir, issued, requestVars, nonceUse, jwsVars, accountVars, signVars, challengeVars>>

\* A poll of the order: the caller sees the status the server has.
OrderPoll ==
  /\ flow.order.status # ""
  /\ flow' = [flow EXCEPT !.seen = ca.order]
  /\ UNCHANGED <<builder, ca>>
  /\ UNCHANGED <<dir, issued, requestVars, nonceUse, jwsVars, accountVars, signVars, challengeVars>>

\* The server validates a triggered challenge: pending, processing, then
\* valid if the key authorization is where it looks, invalid otherwise.
CaChallenge ==
  /\ \E k \in DOMAIN ca.authz :
       /\ ca.authz[k].triggered
       /\ \/ /\ ca.authz[k].challenge = "pending"
             /\ ca' = [ca EXCEPT !.authz[k].challenge = "processing"]
          \/ /\ ca.authz[k].challenge = "processing"
             /\ ca' = [ca EXCEPT !.authz[k].challenge =
                                   IF ca.authz[k].placed THEN "valid" ELSE "invalid"]
  /\ UNCHANGED <<builder, flow>>
  /\ UNCHANGED <<dir, issued, requestVars, nonceUse, jwsVars, accountVars, signVars, challengeVars>>

\* The status a pending authorization takes from its challenge.
AuthorizationAfter_eager(challenge) == {"valid"}

AuthorizationAfter(challenge) ==
  IF challenge \in {"valid", "invalid"} THEN {challenge} ELSE {}

CaAuthorization ==
  /\ \E k \in DOMAIN ca.authz :
       /\ ca.authz[k].status = "pending"
       /\ \E status \in AuthorizationAfter(ca.authz[k].challenge) :
            ca' = [ca EXCEPT !.authz[k].status = status]
  /\ UNCHANGED <<builder, flow>>
  /\ UNCHANGED <<dir, issued, requestVars, nonceUse, jwsVars, accountVars, signVars, challengeVars>>

\* The statuses an order can move to: ready once all its authorizations
\* are valid, processing once it is finalized, then valid or invalid;
\* invalid from every state that is not final.
OrderAfter_reopened(status, authz) ==
  IF status = "pending" THEN {"invalid"}
  ELSE IF status = "ready" THEN {"processing", "invalid"}
  ELSE IF status = "processing" THEN {"valid", "invalid"}
  ELSE {"pending"}

OrderAfter(status, authz) ==
  IF status = "pending"
    THEN {"invalid"} \cup (IF \A k \in DOMAIN authz : authz[k].status = "valid"
                             THEN {"ready"} ELSE {})
  ELSE IF status = "ready" THEN {"processing", "invalid"}
  ELSE IF status = "processing" THEN {"valid", "invalid"}
  ELSE {}

CaOrder ==
  /\ ca.order # "none"
  /\ \E status \in OrderAfter(ca.order, ca.authz) : ca' = [ca EXCEPT !.order = status]
  /\ UNCHANGED <<builder, flow>>
  /\ UNCHANGED <<dir, issued, requestVars, nonceUse, jwsVars, accountVars, signVars, challengeVars>>

NextFlow ==
  \/ FlowOrderBuild
  \/ Authorizations
  \/ PlaceKeyAuthorization
  \/ Trigger
  \/ ChallengePoll
  \/ AuthorizationPoll
  \/ OrderPoll
  \/ CaChallenge
  \/ CaAuthorization
  \/ CaOrder

SpecFlow == Init /\ [][NextFlow]_vars

\* ================================================================ claims
BadNonce == "urn:ietf:params:acme:error:badNonce"

\* C1.  Requests sharing one Directory, interleaved in any way at their
\* .await points and failing in any way, never put the same nonce value in
\* the protected header of two POSTs (the server issues each value once).
C1_NonceInOnePost == \A n \in Nonces : nonceUse[n] <= 1

\* Two requests are in flight at once with different nonces, one of them
\* taken from the slot where the response of the other had put it.
C1_Witness ==
  \E t, u \in Tasks :
    /\ t # u
    /\ pc[t] = "post" /\ fetches[t] = 0 /\ nonceUse[Unwrap(held[t])] = 1
    /\ pc[u] = "post" /\ fetches[u] = 1 /\ nonceUse[Unwrap(held[u])] = 1
    /\ held[t] # held[u]

\* C2.  A call of get_nonce that finds nonce n in the slot returns n,
\* leaves the slot empty and sends nothing to the newNonce URL, so the
\* next get_nonce does not find n.
C2_ConsumeCached ==
  [][\A t \in Tasks :
       (pc[t] = "idle" /\ pc'[t] # "idle" /\ IsSome(dir.nonce))
         => /\ held'[t] = dir.nonce
            /\ dir'.nonce = None
            /\ fetches'[t] = 0
            /\ pc'[t] # "fetch"]_vars

C2_Witness ==
  \E t \in Tasks :
    pc[t] = "post" /\ fetches[t] = 0 /\ IsSome(held[t]) /\ dir.nonce = None

\* C3.  A request that received a POST response with Replay-Nonce n
\* returns with n in the slot, whatever the status of the response and
\* whether its body could be read and decoded or not.
C3_AbsorbedAtReturn ==
  [][\A t \in Tasks :
       (pc[t] = "text" /\ pc'[t] = "done" /\ resp'[t].nonce.readable)
         => dir'.nonce = Some(resp'[t].nonce.value)]_vars

\* A request has returned an error for a 4xx response with an undecodable
\* body, and the nonce of that response is in the slot.
C3_Witness ==
  \E t \in Tasks :
    /\ pc[t] = "done"
    /\ resp[t].status = 400 /\ resp[t].text.shape = "other" /\ ~result[t].ok
    /\ resp[t].nonce.readable
    /\ dir.nonce = Some(resp[t].nonce.value)

\* C4.  The slot never holds more than one nonce, and a response's nonce
\* replaces what the slot held: after the response is taken in, the slot
\* holds exactly that nonce.
C4_AtMostOneNonce ==
  [][/\ Len(dir.nonce) <= 1
     /\ Len(dir'.nonce) <= 1
     /\ \A t \in Tasks :
          (pc[t] = "post" /\ pc'[t] = "text" /\ resp'[t].nonce.readable)
            => dir'.nonce = Some(resp'[t].nonce.value)]_vars

\* Two requests are reading their response bodies, each response carried
\* a nonce, and the slot holds the later one: it displaced the earlier.
C4_Witness ==
  \E t, u \in Tasks :
    /\ t # u
    /\ pc[t] = "text" /\ resp[t].nonce.readable
    /\ pc[u] = "text" /\ resp[u].nonce.readable
    /\ resp[u].nonce.value > resp[t].nonce.value
    /\ dir.nonce = Some(resp[u].nonce.value)

\* C5.  A call of get_nonce that finds the slot empty sends exactly one
\* request to the newNonce URL and returns the nonce of the response
\* without storing it; without a Replay-Nonce header it fails, the slot
\* stays empty, and the request sends no POST.
C5_FreshNonce ==
  [][\A t \in Tasks :
       /\ (pc[t] = "idle" /\ pc'[t] # "idle" /\ dir.nonce = None)
            => /\ pc'[t] = "fetch"
               /\ fetches'[t] = 1
               /\ posts'[t] = 0
               /\ dir'.nonce = None
       /\ (pc[t] = "fetch" /\ pc'[t] # "fetch")
            => /\ fetches'[t] = 1
               /\ dir'.nonce = None
               /\ issued' \in {issued, issued + 1}
               /\ (issued' = issued + 1 => held'[t] = Some(issued'))
               /\ (issued' = issued => /\ pc'[t] = "done"
                                       /\ ~result'[t].ok
                                       /\ posts'[t] = 0
                                       /\ held'[t] = None)]_vars

\* A request has failed because the newNonce response had no nonce; it
\* sent one newNonce request and no POST, and the slot is empty.
C5_Witness ==
  \E t \in Tasks :
    /\ pc[t] = "done"
    /\ result[t] = Failure("newNonce request must return a nonce")
    /\ fetches[t] = 1 /\ posts[t] = 0
    /\ dir.nonce = None

\* C6.  A request whose first POST is answered with a badNonce problem
\* document sends a second POST: it does not return to its caller after a
\* single POST, and it does not hand the badNonce error to its caller.
C6_BadNonceRetried ==
  \A t \in Tasks :
    (pc[t] = "done" /\ resp[t].text.typ = BadNonce)
      => (posts[t] >= 2 /\ result[t].problem # BadNonce)

\* C7.  Against a server that answers POSTs with badNonce a request sends
\* at most 3 POSTs and ends with an error: every request that was called
\* returns.
C7_BoundedAttempts ==
  /\ [][\A t \in Tasks :
          /\ posts'[t] <= 3
          /\ (pc'[t] = "done" /\ resp'[t].text.typ = BadNonce) => ~result'[t].ok]_vars
  /\ \A t \in Tasks : (pc[t] \in {"fetch", "post", "text"}) ~> (pc[t] = "done")

C7_Witness ==
  \E t \in Tasks :
    /\ pc[t] = "done"
    /\ resp[t].text.typ = BadNonce
    /\ posts[t] = 1
    /\ result[t] = ServerError(BadNonce)

\* C8.  A request whose POST ends in anything but the expected resource
\* or a badNonce problem document (the transport fails, another problem
\* document, an undecodable body) has sent exactly one POST and returns an
\* error.
C8_NoRetryOnError ==
  \A t \in Tasks :
    (/\ pc[t] = "done"
     /\ posts[t] >= 1
     /\ resp[t].text.shape # "resource"
     /\ resp[t].text.typ # BadNonce)
      => (posts[t] = 1 /\ ~result[t].ok)

C8_Witness ==
  \E t \in Tasks :
    /\ pc[t] = "done"
    /\ posts[t] = 1
    /\ result[t] = ServerError("urn:ietf:params:acme:error:accountDoesNotExist")

\* C9.  A request whose POST was answered with a non-2xx status never
\* returns a success value to the caller of the operation.
C9_Non2xxIsError ==
  \A t \in Tasks :
    (pc[t] = "done" /\ resp[t].status >= 300 /\ resp[t].text.typ # BadNonce)
      => ~result[t].ok

\* C10.  The protected header of every JWS that jws() returns has exactly
\* one of the keys kid and jwk: kid when an account id was given, jwk when
\* none was.
C10_KidOrJwk ==
  (jwsOut.called /\ jwsOut.res.ok)
    => LET header == jwsOut.res.val.protected.b64
       IN  /\ ("kid" \in DOMAIN header) # ("jwk" \in DOMAIN header)
           /\ ("kid" \in DOMAIN header) = IsSome(jwsIn.account_id)
           /\ ("jwk" \in DOMAIN header) = ~IsSome(jwsIn.account_id)

C10_Witness ==
  /\ jwsOut.called /\ jwsOut.res.ok
  /\ IsSome(jwsIn.account_id)
  /\ jwsOut.res.val.protected.b64.kid = Unwrap(jwsIn.account_id)

\* C11.  On one Account the only request whose protected header has jwk
\* is the newAccount request of AccountBuilder::build; the newOrder request
\* and every authorization fetch have kid, and it is the private_key_id of
\* the Account they are made for.
C11_KidAfterNewAccount ==
  /\ sentReq.signed_with = "jwk" => sentReq.op = "newAccount"
  /\ sentReq.op = "newAccount" => sentReq.signed_with = "jwk"
  /\ sentReq.op \in {"newOrder", "authz"}
       => /\ sentReq.signed_with = "kid"
          /\ sentReq.kid = accounts[sentReq.account].private_key_id

\* An authorization of an order was fetched for one of two Accounts that
\* have different kids, with the kid of the Account of the order.
C11_Witness ==
  \E a, b \in Accounts :
    /\ accounts[a].state = "built" /\ accounts[b].state = "built"
    /\ accounts[a].private_key_id # accounts[b].private_key_id
    /\ sentReq.op = "authz" /\ sentReq.account = a
    /\ sentReq.kid = accounts[a].private_key_id

\* C12.  AccountBuilder::build returns an error and no Account when the
\* newAccount response decodes but has no Location header; when it returns
\* an Account, the private_key_id of that Account is the value of the
\* Location header of the response.
C12_LocationIsKid ==
  outcome.op = "newAccount"
    => /\ (outcome.decoded /\ ~outcome.location.present)
            => (outcome.res = "error" /\ accounts[outcome.account].state # "built")
       /\ outcome.res = "ok"
            => /\ outcome.location.present
               /\ accounts[outcome.account].state = "built"
               /\ accounts[outcome.account].private_key_id = outcome.location.value

C12_Witness ==
  /\ outcome.op = "newAccount"
  /\ outcome.decoded /\ ~outcome.location.present
  /\ outcome.res = "error"
  /\ accounts[outcome.account].state = "none"

C14_ValidAccount ==
  (/\ outcome.op = "newAccount" /\ outcome.conforming
   /\ sentReq.payload.contact # "null"
   /\ sentReq.payload.termsOfServiceAgreed = "true")
    => /\ outcome.res = "ok"
       /\ accounts[outcome.account].state = "built"
       /\ accounts[outcome.account].status = "valid"
       /\ accounts[outcome.account].private_key_id # ""

\* Two accounts were built one after the other, both valid.
C14_Witness ==
  \E a, b \in Accounts :
    /\ a # b
    /\ accounts[a].state = "built" /\ accounts[a].status = "valid"
    /\ accounts[a].private_key_id # ""
    /\ outcome.op = "newAccount" /\ outcome.account = b /\ outcome.conforming
    /\ sentReq.payload.contact # "null" /\ sentReq.payload.termsOfServiceAgreed = "true"
    /\ accounts[b].state = "built" /\ accounts[b].status = "valid"

\* C15.  The termsOfServiceAgreed of every newAccount payload is the value
\* the caller configured (true, false, or null when unset).
C15_TermsAsConfigured ==
  sentReq.op \in {"newAccount", "register"}
    => sentReq.payload.termsOfServiceAgreed = JsonBool(sentReq.configured)

\* C16.  jws() takes the algorithm from the key type alone: RS256 for an
\* RSA key, ES256 for an EC key on P-256; for any other key it returns the
\* unsupported-key error and no JWS.
C16_AlgFromKeyType ==
  jwsOut.called
    => /\ jwsIn.pkey = "RSA"
            => (jwsOut.res.ok /\ jwsOut.res.val.protected.b64.alg = "RS256")
       /\ jwsIn.pkey = "P256"
            => (jwsOut.res.ok /\ jwsOut.res.val.protected.b64.alg = "ES256")
       /\ jwsIn.pkey \notin {"RSA", "P256"}
            => /\ ~jwsOut.res.ok
               /\ jwsOut.res.err = "unsupported private key type"
               /\ jwsOut.res.val = None

C16_Witness ==
  /\ jwsOut.called
  /\ jwsIn.pkey = "P384"
  /\ jwsOut.res = Err("unsupported private key type")

\* C18.  jws() called with the empty string as payload returns a JWS whose
\* payload field encodes zero bytes (base64url of nothing: the empty
\* string), not the text null and not a quoted empty string.
C18_EmptyPayload ==
  (jwsOut.called /\ jwsOut.res.ok /\ jwsIn.payload = "")
    => /\ jwsOut.res.val.payload = b64("")
       /\ jwsOut.res.val.payload.b64 \notin {"null", "\"\""}

\* The POST-as-GET of an authorization: empty payload, signed with a kid.
C18_Witness ==
  /\ jwsOut.called /\ jwsOut.res.ok
  /\ jwsIn.payload = "" /\ jwsIn.url = "authz" /\ IsSome(jwsIn.account_id)
  /\ jwsOut.res.val.payload.b64 = ""

\* The big-endian magnitude m left-padded with zeros to COMPONENT_SIZE bytes.
LeftPadded(m) ==
  [i \in 1..COMPONENT_SIZE |->
     IF i <= COMPONENT_SIZE - Len(m) THEN 0 ELSE m[i - (COMPONENT_SIZE - Len(m))]]

\* C17.  For every P-256 signature (r, s) the conversion returns exactly
\* 64 bytes: r left-padded with zeros to 32 bytes, then s left-padded to
\* 32 bytes.  The 0x00 the DER encoding puts in front of a component with
\* the high bit set is removed, and nothing is removed from a component
\* that has none.
C17_RawSignature ==
  sigOut.called
    => /\ sigOut.res.ok
       /\ Len(sigOut.res.val) = 64
       /\ SubSeq(sigOut.res.val, 1, 32) = LeftPadded(sigIn.r)
       /\ SubSeq(sigOut.res.val, 33, 64) = LeftPadded(sigIn.s)

\* r is 0x00FF.. in DER (33 bytes) and comes out as 32 bytes that start
\* with 0xFF; s is one byte short, has no 0x00 in front, and keeps its
\* first byte behind one byte of padding.
C17_Witness ==
  /\ sigOut.called /\ sigOut.res.ok
  /\ Len(sigIn.r) = 32 /\ sigIn.r[1] = 255
  /\ sigOut.res.val[1] = 255
  /\ Len(sigIn.s) = 31 /\ sigIn.s[1] = 127
  /\ sigOut.res.val[33] = 0 /\ sigOut.res.val[34] = 127


\* C19: once the server's challenge has reached valid or invalid, having
\* passed only through pending and processing, validate() eventually
\* returns instead of polling forever.
C19_PollingReturns ==
  (chal.pc # "idle" /\ srv \in {"valid", "invalid"}) ~> (chal.pc = "done")

\* C20: validate() returns Ok only when the last status it observed is
\* valid; once it has observed invalid it does nothing but reach the head
\* of the loop and return an error; it never returns Ok on pending,
\* processing or invalid.
C20_VerdictFollowsStatus ==
  [][/\ (chal'.pc = "done" /\ chal'.result = "ok") => chal'.status = "valid"
     /\ (chal.status = "invalid" /\ chal.pc \in {"sleep", "check"} /\ chal' # chal)
          => /\ chal'.status = "invalid"
             /\ \/ chal'.pc = "check"
                \/ chal'.pc = "done" /\ chal'.result = "error"]_vars

\* validate() returned Ok after at least one poll, the last answer valid.
C20_Witness ==
  /\ chal.pc = "done"
  /\ chal.result = "ok"
  /\ chal.status = "valid"
  /\ chal.polls > 0


\* C21: the trigger is a POST of the empty JSON object {} to the URL of
\* the challenge; only an answer with HTTP status 200 or 202 lets
\* validate() go on, and after any other status it has returned an error
\* without sending a poll.
C21_TriggerAcceptsOnly200And202 ==
  /\ chal.pc # "idle" /\ chal.sent.url # ""
       => chal.sent = [url |-> ChallengeUrl, payload |-> "{}"]
  /\ chal.http \notin {0, 200, 202}
       => chal.pc = "done" /\ chal.result = "error" /\ chal.polls = 0
  /\ (chal.pc \in {"check", "poll", "sleep"} \/ chal.result = "ok")
       => chal.http \in {200, 202}

\* The trigger was answered with status 400 and validate() has returned.
C21_Witness ==
  /\ chal.sent = [url |-> ChallengeUrl, payload |-> "{}"]
  /\ chal.http = 400
  /\ chal.pc = "done"


\* C25: every identifier in the payload of a newOrder request that
\* OrderBuilder::build sent has type "dns", whatever add_dns_identifier and
\* set_identifiers calls were made on the builder before.
C25_OnlyDnsIdentifiers ==
  IsSome(builder.sent) =>
    \A i \in DOMAIN Unwrap(builder.sent).identifiers :
      Unwrap(builder.sent).identifiers[i].typ = "dns"


C23_OrderStatusForward ==
  [][LET rank(status) == CASE status = "pending" -> 0
                           [] status = "ready" -> 1
                           [] status = "processing" -> 2
                           [] OTHER -> 3
     IN  flow.seen # ""
           => /\ rank(flow'.seen) >= rank(flow.seen)
              /\ flow.seen \in {"valid", "invalid"} => flow'.seen = flow.seen]_vars

\* The order was returned pending and a later answer showed it valid.
C23_Witness ==
  /\ flow.order.status = "pending"
  /\ flow.seen = "valid"

\* C26: Order::authorizations sends one POST-as-GET in kid mode for each
\* authorization URL, in the order of the list; when it returns Ok the
\* list has one Authorization for each URL in that order; when a request
\* fails it returns the error, nothing of the list, and sends no request
\* for the URLs that are left.
C26_AuthorizationsInListOrder ==
  [][/\ Len(flow'.requested) <= Len(flow'.order.authorization_urls)
     /\ \A k \in DOMAIN flow'.requested :
          flow'.requested[k] = [ url |-> flow'.order.authorization_urls[k],
                                signed_with |-> "kid", payload |-> "" ]
     /\ flow'.result = "ok"
          => /\ Len(flow'.requested) = Len(flow'.order.authorization_urls)
             /\ Len(flow'.authorizations) = Len(flow'.order.authorization_urls)
             /\ \A k \in DOMAIN flow'.authorizations :
                  flow'.authorizations[k].url = flow'.order.authorization_urls[k]
     /\ flow'.result = "error" => flow'.authorizations = <<>>
     /\ flow.result = "error" => flow'.requested = flow.requested]_vars

\* The first of two requests failed: the second URL was never requested.
C26_Witness ==
  /\ flow.result = "error"
  /\ Len(flow.requested) = 1
  /\ Len(flow.order.authorization_urls) = 2

\* C27: the Order that OrderBuilder::build returned is a snapshot: no
\* later call of its caller changes any of its fields, and its status
\* still reads pending when all its authorizations are valid.
C27_OrderIsSnapshot ==
  [][/\ flow.order.status # "" => flow'.order = flow.order
     /\ flow'.pc = "end" => flow'.order.status = "pending"]_vars

\* The server has the order ready, the caller's Order still says pending.
C27_Witness ==
  /\ flow.pc = "end"
  /\ \A k \in DOMAIN ca.authz : ca.authz[k].status = "valid"
  /\ ca.order = "ready"
  /\ Len(flow.order.authorization_urls) = 2
  /\ flow.order.status = "pending"


C28_DirectoryReadOnly ==
  /\ DOMAIN dir = DOMAIN NewDirectory
  /\ \A field \in DOMAIN dir \ {"nonce"} : dir[field] = NewDirectory[field]

\* The slot has been written and a request is in flight.
C28_Witness ==
  /\ IsSome(dir.nonce)
  /\ \E t \in Tasks : pc[t] = "post"
  /\ dir.new_nonce_url = "newNonce"

\* C29, as stated: a request that fails at signing because of its key
\* sends no POST and leaves the slot as it was before the call.
C29_SigningFailureKeepsCache ==
  [][\A t \in Tasks :
       (/\ pc[t] \in {"idle", "fetch"}
        /\ pc'[t] = "done"
        /\ result'[t] = Failure("unsupported private key type"))
         => (posts'[t] = 0 /\ dir'.nonce = dir.nonce)]_vars

\* C29, amended: such a request sends no POST, and get_nonce has run
\* before the signing failed: a nonce that was in the slot has been taken
\* out and the slot is empty; with an empty slot a nonce was fetched from
\* newNonce, and the slot is not written.
C29_SigningFailureConsumesNonce ==
  [][\A t \in Tasks :
       /\ (/\ pc[t] = "idle"
           /\ pc'[t] = "done"
           /\ result'[t] = Failure("unsupported private key type"))
            => /\ posts'[t] = 0 /\ fetches'[t] = 0
               /\ IsSome(dir.nonce)
               /\ held'[t] = dir.nonce
               /\ dir'.nonce = None
       /\ (/\ pc[t] = "fetch"
           /\ pc'[t] = "done"
           /\ result'[t] = Failure("unsupported private key type"))
            => /\ posts'[t] = 0 /\ fetches'[t] = 1
               /\ issued' = issued + 1
               /\ held'[t] = Some(issued')
               /\ dir'.nonce = dir.nonce]_vars

\* A request took the nonce of the slot and then failed at signing.
C29_Witness ==
  \E t \in Tasks :
    /\ pc[t] = "done"
    /\ result[t] = Failure("unsupported private key type")
    /\ fetches[t] = 0 /\ posts[t] = 0
    /\ IsSome(held[t])
    /\ dir.nonce = None

\* C30: with requests issued one at a time, after a request whose POST
\* failed in transport or was cancelled before its response the slot is
\* empty; returning leaves the slot as it is, and a request called with
\* the slot empty gets its nonce by one request to newNonce.
C30_NonceNotPutBack ==
  [][\A t \in Tasks :
       /\ (/\ pc[t] = "post"
           /\ \/ pc'[t] = "idle"
              \/ pc'[t] = "done" /\ result'[t] = Failure("transport"))
            => dir'.nonce = None
       /\ (pc[t] = "done" /\ pc'[t] = "idle") => dir'.nonce = dir.nonce
       /\ (pc[t] = "idle" /\ pc'[t] # "idle" /\ dir.nonce = None)
            => (pc'[t] = "fetch" /\ fetches'[t] = 1)]_vars

\* The POST of a request failed in transport, and the slot is empty.
C30_Witness ==
  \E t \in Tasks :
    /\ pc[t] = "done"
    /\ result[t] = Failure("transport")
    /\ posts[t] = 1
    /\ resp[t] = NoResponse
    /\ dir.nonce = None

====
